---- MODULE Spec2Model ----
(***************************************************************************)
(* A model of the HTTP server of codecrafters-http-server-rust.            *)
(*                                                                         *)
(*   src/src/http.rs        Method, Status, Request::new, Request::handle, *)
(*                          Encoding, Response::{new,text,binary,as_bytes} *)
(*   src/src/compression.rs gzip::compress                                 *)
(*   src/src/main.rs        main, handle_connection, check_method,         *)
(*                          hande_path, write_response                     *)
(*                                                                         *)
(* Strings and byte buffers are sequences of one-character strings, so     *)
(* that splitting, prefix tests, case folding and decimal formatting are   *)
(* computed character by character.  Bytes that are not text (the gzip     *)
(* container) are written as two hexadecimal digits, e.g. "1f".            *)
(***************************************************************************)
EXTENDS Integers, Sequences, FiniteSets, TLC

(***************************************************************************)
(* Option<T>: None is the empty sequence, Some(x) the one-element sequence *)
(***************************************************************************)
None == <<>>
Some(x) == <<x>>
IsSome(o) == Len(o) = 1
Unwrap(o) == o[1]

(***************************************************************************)
(* String primitives of the Rust standard library used by the program      *)
(***************************************************************************)
LowerLetters ==
    <<"a", "b", "c", "d", "e", "f", "g", "h", "i", "j", "k", "l", "m",
      "n", "o", "p", "q", "r", "s", "t", "u", "v", "w", "x", "y", "z">>
UpperLetters ==
    <<"A", "B", "C", "D", "E", "F", "G", "H", "I", "J", "K", "L", "M",
      "N", "O", "P", "Q", "R", "S", "T", "U", "V", "W", "X", "Y", "Z">>

IndexIn(c, letters) ==
    IF \E i \in DOMAIN letters : letters[i] = c
    THEN CHOOSE i \in DOMAIN letters : letters[i] = c
    ELSE 0

\* str::to_ascii_uppercase
to_ascii_uppercase(s) ==
    [i \in DOMAIN s |->
        IF IndexIn(s[i], LowerLetters) > 0
        THEN UpperLetters[IndexIn(s[i], LowerLetters)]
        ELSE s[i]]

\* str::to_lowercase (the inputs are ASCII)
to_lowercase(s) ==
    [i \in DOMAIN s |->
        IF IndexIn(s[i], UpperLetters) > 0
        THEN LowerLetters[IndexIn(s[i], UpperLetters)]
        ELSE s[i]]

\* whether sub occurs in s at position i (1-based)
MatchesAt(s, sub, i) ==
    /\ i >= 1
    /\ i + Len(sub) - 1 <= Len(s)
    /\ \A j \in 1..Len(sub) : s[i + j - 1] = sub[j]

\* str::find: the first position of sub in s, 0 when there is none
Find(s, sub) ==
    IF \E i \in 1..(Len(s) + 1) : MatchesAt(s, sub, i)
    THEN CHOOSE i \in 1..(Len(s) + 1) :
            /\ MatchesAt(s, sub, i)
            /\ \A k \in 1..(i - 1) : ~MatchesAt(s, sub, k)
    ELSE 0

\* str::contains
Contains(s, sub) == Find(s, sub) > 0

\* s[from..) as a sequence
DropFirst(s, n) == SubSeq(s, n + 1, Len(s))

\* str::strip_prefix
strip_prefix(s, prefix) ==
    IF MatchesAt(s, prefix, 1) THEN Some(DropFirst(s, Len(prefix))) ELSE None

\* str::split_once
split_once(s, sep) ==
    LET i == Find(s, sep) IN
    IF i = 0 THEN None
    ELSE Some(<<SubSeq(s, 1, i - 1), DropFirst(s, i + Len(sep) - 1)>>)

\* str::split(' ').collect(): every separator cuts, empty tokens are kept,
\* and the empty string yields one empty token
RECURSIVE split(_, _)
split(s, ch) ==
    LET i == Find(s, <<ch>>) IN
    IF i = 0 THEN <<s>>
    ELSE <<SubSeq(s, 1, i - 1)>> \o split(DropFirst(s, i), ch)

Digits == <<"0", "1", "2", "3", "4", "5", "6", "7", "8", "9">>

\* usize::to_string
RECURSIVE to_string(_)
to_string(n) ==
    IF n < 10 THEN <<Digits[n + 1]>>
    ELSE to_string(n \div 10) \o <<Digits[(n % 10) + 1]>>

IsDigit(c) == IndexIn(c, Digits) > 0

RECURSIVE DigitsValue(_)
DigitsValue(s) ==
    IF s = <<>> THEN 0
    ELSE 10 * DigitsValue(SubSeq(s, 1, Len(s) - 1)) + (IndexIn(s[Len(s)], Digits) - 1)

\* str::parse::<usize>(): an optional leading '+', then one or more decimal
\* digits; anything else is an error (None).  The values of the model are far
\* below usize::MAX, where parse would report an overflow.
parse_usize(s) ==
    LET d == IF Len(s) > 0 /\ s[1] = "+" THEN Tail(s) ELSE s IN
    IF Len(d) > 0 /\ \A i \in DOMAIN d : IsDigit(d[i])
    THEN Some(DigitsValue(d))
    ELSE None

(***************************************************************************)
(* Literals of http.rs                                                     *)
(***************************************************************************)
STATUS_200_OK ==
    <<"2", "0", "0", " ", "O", "K">>
STATUS_201_CREATED ==
    <<"2", "0", "1", " ", "C", "r", "e", "a", "t", "e", "d">>
STATUS_400_BAD_REQUEST ==
    <<"4", "0", "0", " ", "B", "a", "d", " ", "R", "e", "q", "u", "e", "s", "t">>
STATUS_404_NOT_FOUND ==
    <<"4", "0", "4", " ", "N", "o", "t", " ", "F", "o", "u", "n", "d">>
STATUS_405_METHOD_NOT_ALLOWED ==
    <<"4", "0", "5", " ", "M", "e", "t", "h", "o", "d", " ", "N", "o", "t", " ", "A", "l", "l", "o", "w", "e", "d">>
STATUS_500_INTERNAL_SERVER_ERROR ==
    <<"5", "0", "0", " ", "I", "n", "t", "e", "r", "n", "a", "l", " ", "S", "e", "r", "v", "e", "r", " ", "E", "r", "r", "o", "r">>
HttpVersionPrefix ==
    <<"H", "T", "T", "P", "/", "1", ".", "1", " ">>
ContentEncodingHeader ==
    <<"\r", "\n", "C", "o", "n", "t", "e", "n", "t", "-", "E", "n", "c", "o", "d", "i", "n", "g", ":", " ">>
GzipToken ==
    <<"g", "z", "i", "p">>
ContentTypeHeader ==
    <<"\r", "\n", "C", "o", "n", "t", "e", "n", "t", "-", "T", "y", "p", "e", ":", " ">>
ContentLengthHeader ==
    <<"\r", "\n", "C", "o", "n", "t", "e", "n", "t", "-", "L", "e", "n", "g", "t", "h", ":", " ">>
HeadersEnd ==
    <<"\r", "\n", "\r", "\n">>
TextPlain ==
    <<"t", "e", "x", "t", "/", "p", "l", "a", "i", "n">>
OctetStream ==
    <<"a", "p", "p", "l", "i", "c", "a", "t", "i", "o", "n", "/", "o", "c", "t", "e", "t", "-", "s", "t", "r", "e", "a", "m">>
UserAgentMissing ==
    <<"U", "s", "e", "r", "-", "A", "g", "e", "n", "t", " ", "h", "e", "a", "d", "e", "r", " ", "i", "s", " ", "m", "i", "s", "s", "i", "n", "g">>
KeyContentLength ==
    <<"c", "o", "n", "t", "e", "n", "t", "-", "l", "e", "n", "g", "t", "h">>
KeyAcceptEncoding ==
    <<"a", "c", "c", "e", "p", "t", "-", "e", "n", "c", "o", "d", "i", "n", "g">>
KeyUserAgent ==
    <<"u", "s", "e", "r", "-", "a", "g", "e", "n", "t">>
EchoPrefix ==
    <<"/", "e", "c", "h", "o", "/">>
UserAgentPrefix ==
    <<"/", "u", "s", "e", "r", "-", "a", "g", "e", "n", "t">>
FilesPrefix ==
    <<"/", "f", "i", "l", "e", "s", "/">>
RootPath ==
    <<"/">>
HeaderSeparator ==
    <<":", " ">>
StrGET ==
    <<"G", "E", "T">>
StrPOST ==
    <<"P", "O", "S", "T">>

(***************************************************************************)
(* Method and Status (http.rs 5-29)                                        *)
(***************************************************************************)
Statuses ==
    {"OK", "Created", "BadRequest", "NotFound", "MethodNotAllowed",
     "InternalServerError"}

\* mutant: the token is compared as it is, without to_ascii_uppercase
Method_from_caseSensitive(str) ==
    IF str = StrGET THEN Some("GET")
    ELSE IF str = StrPOST THEN Some("POST")
    ELSE None

\* Method::from: Some(method), or None for the Err it bails with
Method_from(str) ==
    LET u == to_ascii_uppercase(str) IN
    IF u = StrGET THEN Some("GET")
    ELSE IF u = StrPOST THEN Some("POST")
    ELSE None

(***************************************************************************)
(* gzip::compress (compression.rs).  GzEncoder writes the RFC 1952         *)
(* container: a 10-byte header, the DEFLATE stream, CRC-32 and ISIZE.  The *)
(* DEFLATE stream is written here as one stored block, the encoding that   *)
(* needs no Huffman table; the header, the trailer and the fact that the   *)
(* stream decodes to the input do not depend on that choice.               *)
(***************************************************************************)
OtherChars == <<" ", "/", "-", ".", ":", "+", ",", "\r", "\n">>
OtherCodes == <<32, 47, 45, 46, 58, 43, 44, 13, 10>>

\* the byte value of a character
Ord(c) ==
    IF IndexIn(c, LowerLetters) > 0 THEN 96 + IndexIn(c, LowerLetters)
    ELSE IF IndexIn(c, UpperLetters) > 0 THEN 64 + IndexIn(c, UpperLetters)
    ELSE IF IndexIn(c, Digits) > 0 THEN 47 + IndexIn(c, Digits)
    ELSE OtherCodes[IndexIn(c, OtherChars)]

HexDigits ==
    <<"0", "1", "2", "3", "4", "5", "6", "7", "8", "9",
      "a", "b", "c", "d", "e", "f">>

\* a byte that is not text, named by its two hexadecimal digits
HexByte(n) == HexDigits[(n \div 16) + 1] \o HexDigits[(n % 16) + 1]

\* the low w bits of n, least significant first
RECURSIVE BitsOf(_, _)
BitsOf(n, w) ==
    IF w = 0 THEN <<>> ELSE <<n % 2>> \o BitsOf(n \div 2, w - 1)

RECURSIVE BitsValue(_)
BitsValue(bits) ==
    IF bits = <<>> THEN 0 ELSE bits[1] + 2 * BitsValue(Tail(bits))

Xor(a, b) == [i \in DOMAIN a |-> (a[i] + b[i]) % 2]

\* the reflected CRC-32 polynomial 0xEDB88320, least significant bit first
CrcPoly ==
    <<0,0,0,0, 0,1,0,0, 1,1,0,0, 0,0,0,1, 0,0,0,1, 1,1,0,1, 1,0,1,1, 0,1,1,1>>

CrcShift(crc) ==
    LET shifted == [i \in 1..32 |-> IF i < 32 THEN crc[i + 1] ELSE 0] IN
    IF crc[1] = 1 THEN Xor(shifted, CrcPoly) ELSE shifted

RECURSIVE CrcRounds(_, _)
CrcRounds(crc, n) == IF n = 0 THEN crc ELSE CrcRounds(CrcShift(crc), n - 1)

RECURSIVE CrcUpdate(_, _)
CrcUpdate(crc, content) ==
    IF content = <<>> THEN crc
    ELSE CrcUpdate(CrcRounds(Xor(crc, BitsOf(Ord(Head(content)), 32)), 8),
                   Tail(content))

Crc32(content) ==
    Xor(CrcUpdate([i \in 1..32 |-> 1], content), [i \in 1..32 |-> 1])

\* a 32-bit value as four little-endian bytes
LittleEndian32(bits) ==
    [k \in 1..4 |-> HexByte(BitsValue(SubSeq(bits, 8 * k - 7, 8 * k)))]

GzipHeader == <<"1f", "8b", "08", "00", "00", "00", "00", "00", "00", "ff">>

DeflateStored(content) ==
    <<"01">>
    \o SubSeq(LittleEndian32(BitsOf(Len(content), 32)), 1, 2)
    \o SubSeq(LittleEndian32(Xor(BitsOf(Len(content), 32), [i \in 1..32 |-> 1])), 1, 2)
    \o content

gzip_compress(content) ==
    GzipHeader
    \o DeflateStored(content)
    \o LittleEndian32(Crc32(content))
    \o LittleEndian32(BitsOf(Len(content), 32))

(***************************************************************************)
(* Response (http.rs 211-315)                                              *)
(***************************************************************************)
\* Encoding::from
Encoding_from(o) ==
    IF IsSome(o)
    THEN IF Contains(Unwrap(o), GzipToken) THEN "Gzip" ELSE "None"
    ELSE "None"

\* mutant: content starts as an empty body (Some(Vec::new())) instead of None
Response_new_emptyBody(status) ==
    [status         |-> status,
     content        |-> Some(<<>>),
     content_type   |-> <<>>,
     content_length |-> 0,
     encoding       |-> "None",
     bytes          |-> <<>>]

\* Response::new
Response_new(status) ==
    [status         |-> status,
     content        |-> None,
     content_type   |-> <<>>,
     content_length |-> 0,
     encoding       |-> "None",
     bytes          |-> <<>>]

\* Response::text
Response_text(content, encoding) ==
    [Response_new("OK") EXCEPT
        !.content_type   = TextPlain,
        !.content_length = Len(content),
        !.content        = Some(content),
        !.encoding       = Encoding_from(encoding)]

\* Response::binary
Response_binary(content, encoding) ==
    [Response_new("OK") EXCEPT
        !.content_type   = OctetStream,
        !.content_length = Len(content),
        !.content        = Some(content),
        !.encoding       = Encoding_from(encoding)]

\* the match on self.status of as_bytes
StatusLine(status) ==
    CASE status = "OK"                  -> STATUS_200_OK
      [] status = "Created"             -> STATUS_201_CREATED
      [] status = "BadRequest"          -> STATUS_400_BAD_REQUEST
      [] status = "NotFound"            -> STATUS_404_NOT_FOUND
      [] status = "MethodNotAllowed"    -> STATUS_405_METHOD_NOT_ALLOWED
      [] status = "InternalServerError" -> STATUS_500_INTERNAL_SERVER_ERROR

\* mutant: the body is compressed when it is written, after content_length
\* was taken from the raw content
Serialized_staleLength(r) ==
    HttpVersionPrefix
    \o StatusLine(r.status)
    \o (IF IsSome(r.content)
        THEN (IF r.encoding = "Gzip"
              THEN ContentEncodingHeader \o GzipToken
              ELSE <<>>)
             \o ContentTypeHeader \o r.content_type
             \o ContentLengthHeader \o to_string(r.content_length)
             \o HeadersEnd
             \o (IF r.encoding = "Gzip" THEN gzip_compress(Unwrap(r.content))
                 ELSE Unwrap(r.content))
        ELSE HeadersEnd)

\* mutant: Content-Length is written before Content-Type
Serialized_lengthFirst(r) ==
    HttpVersionPrefix
    \o StatusLine(r.status)
    \o (IF IsSome(r.content)
        THEN (IF r.encoding = "Gzip"
              THEN ContentEncodingHeader \o GzipToken
              ELSE <<>>)
             \o ContentLengthHeader \o to_string(r.content_length)
             \o ContentTypeHeader \o r.content_type
             \o HeadersEnd
             \o Unwrap(r.content)
        ELSE HeadersEnd)

\* what one call of as_bytes appends to self.bytes
Serialized(r) ==
    HttpVersionPrefix
    \o StatusLine(r.status)
    \o (IF IsSome(r.content)
        THEN (IF r.encoding = "Gzip"
              THEN ContentEncodingHeader \o GzipToken
              ELSE <<>>)
             \o ContentTypeHeader \o r.content_type
             \o ContentLengthHeader \o to_string(r.content_length)
             \o HeadersEnd
             \o Unwrap(r.content)
        ELSE HeadersEnd)

\* mutant: the buffer is cleared before it is filled
as_bytes_cleared(r) == [r EXCEPT !.bytes = Serialized(r)]

\* Response::as_bytes: the response after the call; the slice it returns is
\* the whole of self.bytes, which the call extends and never clears
as_bytes(r) == [r EXCEPT !.bytes = r.bytes \o Serialized(r)]

(***************************************************************************)
(* Reading from the connection.  A connection's unread input is `stream`;  *)
(* `eof` says the client has shut down its sending side, so that a read    *)
(* past the data returns end of file; while eof is FALSE such a read       *)
(* waits.                                                                  *)
(***************************************************************************)
LineEnd(stream) == Find(stream, <<"\n">>)

\* whether a read of one line returns
LineReady(stream, eof) == LineEnd(stream) > 0 \/ eof

\* read_line: the bytes up to and including the first "\n", or up to the
\* end of the stream
read_line(stream) ==
    IF LineEnd(stream) > 0 THEN SubSeq(stream, 1, LineEnd(stream)) ELSE stream

\* Lines::next_line strips "\n" and a "\r" before it
StripNewline(raw) ==
    IF Len(raw) > 0 /\ raw[Len(raw)] = "\n"
    THEN IF Len(raw) > 1 /\ raw[Len(raw) - 1] = "\r"
         THEN SubSeq(raw, 1, Len(raw) - 2)
         ELSE SubSeq(raw, 1, Len(raw) - 1)
    ELSE raw

\* HashMap::insert and HashMap::get
\* mutant: an existing key keeps its value (entry(k).or_insert(v))
Insert_keepFirst(map, k, v) ==
    [x \in (DOMAIN map) \cup {k} |-> IF x \in DOMAIN map THEN map[x] ELSE v]

Insert(map, k, v) ==
    [x \in (DOMAIN map) \cup {k} |-> IF x = k THEN v ELSE map[x]]
Get(map, k) == IF k \in DOMAIN map THEN Some(map[k]) ELSE None
EmptyMap == [x \in {} |-> <<>>]

(***************************************************************************)
(* Request::new (http.rs 67-122)                                           *)
(***************************************************************************)
\* lines 74-90: the request line split on ' ', the token count, the method
ParseRequestLine(request_line) ==
    LET parts == split(request_line, " ") IN
    IF Len(parts) # 3
    THEN [result |-> "BadRequestError", method |-> "none",
          path |-> <<>>, http_version |-> <<>>]
    ELSE IF Method_from(parts[1]) = None
    THEN [result |-> "MethodNotAllowedError", method |-> "none",
          path |-> <<>>, http_version |-> <<>>]
    ELSE [result |-> "Ok", method |-> Unwrap(Method_from(parts[1])),
          path |-> parts[2], http_version |-> parts[3]]

\* lines 92-102: the header loop, up to the first empty line or the end of
\* the stream; blocked when the next line has not arrived
RECURSIVE HeaderLoop(_, _, _)
HeaderLoop(stream, eof, headers) ==
    IF stream = <<>>
    THEN [headers |-> headers, rest |-> <<>>, blocked |-> ~eof]
    ELSE IF ~LineReady(stream, eof)
    THEN [headers |-> headers, rest |-> stream, blocked |-> TRUE]
    ELSE LET raw  == read_line(stream)
             rest == DropFirst(stream, Len(raw))
             line == StripNewline(raw)
             kv   == split_once(line, HeaderSeparator)
             next == IF IsSome(kv)
                     THEN Insert(headers, to_lowercase(Unwrap(kv)[1]), Unwrap(kv)[2])
                     ELSE headers
         IN  IF line = <<>>
             THEN [headers |-> next, rest |-> rest, blocked |-> FALSE]
             ELSE HeaderLoop(rest, eof, next)

(***************************************************************************)
(* The file system under Config.files_dir                                  *)
(***************************************************************************)
\* PathBuf::from(filedir).push(filename): an absolute filename replaces the
\* path, any other is appended after a separator
PathJoin(filedir, filename) ==
    IF Len(filename) > 0 /\ filename[1] = "/" THEN filename
    ELSE IF Len(filedir) > 0 /\ filedir[Len(filedir)] = "/" THEN filedir \o filename
    ELSE filedir \o <<"/">> \o filename

Absent == [kind |-> "absent", data |-> <<>>]
Directory == [kind |-> "dir", data |-> <<>>]
File(data) == [kind |-> "file", data |-> data]

\* fs::read: Some(content) for a file, None for the Err of anything else
fs_read(files, path) ==
    IF path \in DOMAIN files /\ files[path].kind = "file"
    THEN Some(files[path].data)
    ELSE None

\* fs::write succeeds unless the path names a directory or nothing that can
\* be created
fs_write_ok(files, path) ==
    path \in DOMAIN files /\ files[path].kind # "dir"

\* mutant: the file is opened for appending
fs_write_append(files, path, content) ==
    [files EXCEPT ![path] = File(files[path].data \o content)]

fs_write(files, path, content) == [files EXCEPT ![path] = File(content)]

(***************************************************************************)
(* Request::handle (http.rs 124-202): the response, the file system after  *)
(* the call and the file operations it attempted, each with its outcome    *)
(***************************************************************************)
Answer(response, files, io) == [response |-> response, fs |-> files, io |-> io]

\* mutant: a missing directory is taken to be the empty path
\* (files_dir.clone().unwrap_or_default()) instead of being refused
handle_files_defaultDir(req, files_dir, files, filename, encoding) ==
    LET filedir  == IF IsSome(files_dir) THEN Unwrap(files_dir) ELSE <<>>
        filepath == PathJoin(filedir, filename)
        read     == fs_read(files, filepath)
    IN  IF req.method = "GET"
        THEN IF IsSome(read)
             THEN Answer(Response_binary(Unwrap(read), encoding), files,
                         <<<<"read", filepath, TRUE>>>>)
             ELSE Answer(Response_new("NotFound"), files,
                         <<<<"read", filepath, FALSE>>>>)
        ELSE IF IsSome(req.content)
             THEN IF fs_write_ok(files, filepath)
                  THEN Answer(Response_new("Created"),
                              fs_write(files, filepath, Unwrap(req.content)),
                              <<<<"write", filepath, TRUE>>>>)
                  ELSE Answer(Response_new("InternalServerError"), files,
                              <<<<"write", filepath, FALSE>>>>)
             ELSE Answer(Response_new("Created"), files, <<>>)

\* mutant: GET opens the file with create(true), so that a missing file is
\* created empty and served
handle_files_getCreates(req, files_dir, files, filename, encoding) ==
    IF req.method = "GET"
    THEN IF IsSome(files_dir)
         THEN LET filepath == PathJoin(Unwrap(files_dir), filename)
                  read     == fs_read(files, filepath)
              IN  IF IsSome(read)
                  THEN Answer(Response_binary(Unwrap(read), encoding), files,
                              <<<<"read", filepath, TRUE>>>>)
                  ELSE IF fs_write_ok(files, filepath)
                  THEN Answer(Response_binary(<<>>, encoding),
                              fs_write(files, filepath, <<>>),
                              <<<<"read", filepath, TRUE>>>>)
                  ELSE Answer(Response_new("NotFound"), files,
                              <<<<"read", filepath, FALSE>>>>)
         ELSE Answer(Response_new("NotFound"), files, <<>>)
    ELSE IF IsSome(files_dir)
         THEN LET filepath == PathJoin(Unwrap(files_dir), filename) IN
              IF IsSome(req.content)
              THEN IF fs_write_ok(files, filepath)
                   THEN Answer(Response_new("Created"),
                               fs_write(files, filepath, Unwrap(req.content)),
                               <<<<"write", filepath, TRUE>>>>)
                   ELSE Answer(Response_new("InternalServerError"), files,
                               <<<<"write", filepath, FALSE>>>>)
              ELSE Answer(Response_new("Created"), files, <<>>)
         ELSE Answer(Response_new("InternalServerError"), files, <<>>)

handle_files(req, files_dir, files, filename, encoding) ==
    IF req.method = "GET"
    THEN IF IsSome(files_dir)
         THEN LET filepath == PathJoin(Unwrap(files_dir), filename)
                  read     == fs_read(files, filepath)
              IN  IF IsSome(read)
                  THEN Answer(Response_binary(Unwrap(read), encoding), files,
                              <<<<"read", filepath, TRUE>>>>)
                  ELSE Answer(Response_new("NotFound"), files,
                              <<<<"read", filepath, FALSE>>>>)
         ELSE Answer(Response_new("NotFound"), files, <<>>)
    ELSE IF IsSome(files_dir)
         THEN LET filepath == PathJoin(Unwrap(files_dir), filename) IN
              IF IsSome(req.content)
              THEN IF fs_write_ok(files, filepath)
                   THEN Answer(Response_new("Created"),
                               fs_write(files, filepath, Unwrap(req.content)),
                               <<<<"write", filepath, TRUE>>>>)
                   ELSE Answer(Response_new("InternalServerError"), files,
                               <<<<"write", filepath, FALSE>>>>)
              ELSE Answer(Response_new("Created"), files, <<>>)
         ELSE Answer(Response_new("InternalServerError"), files, <<>>)

handle(req, files_dir, files) ==
    LET encoding == Get(req.headers, KeyAcceptEncoding) IN
    IF req.path = RootPath
    THEN IF req.method # "GET"
         THEN Answer(Response_new("MethodNotAllowed"), files, <<>>)
         ELSE Answer(Response_new("OK"), files, <<>>)
    ELSE IF IsSome(strip_prefix(req.path, EchoPrefix))
    THEN IF req.method # "GET"
         THEN Answer(Response_new("MethodNotAllowed"), files, <<>>)
         ELSE Answer(Response_text(Unwrap(strip_prefix(req.path, EchoPrefix)), encoding),
                     files, <<>>)
    ELSE IF IsSome(strip_prefix(req.path, UserAgentPrefix))
    THEN IF req.method # "GET"
         THEN Answer(Response_new("MethodNotAllowed"), files, <<>>)
         ELSE Answer(Response_text(
                        IF IsSome(Get(req.headers, KeyUserAgent))
                        THEN Unwrap(Get(req.headers, KeyUserAgent))
                        ELSE UserAgentMissing,
                        encoding),
                     files, <<>>)
    ELSE IF IsSome(strip_prefix(req.path, FilesPrefix))
    THEN handle_files(req, files_dir, files,
                      Unwrap(strip_prefix(req.path, FilesPrefix)), encoding)
    ELSE Answer(Response_new("NotFound"), files, <<>>)

(***************************************************************************)
(* The clients: what a client sends on one connection                      *)
(***************************************************************************)
Strget ==
    <<"g", "e", "t">>
StrPost ==
    <<"P", "o", "s", "t">>
StrPATCH ==
    <<"P", "A", "T", "C", "H">>
HttpVersion ==
    <<"H", "T", "T", "P", "/", "1", ".", "1">>
CRLF ==
    <<"\r", "\n">>
PathEcho ==
    <<"/", "e", "c", "h", "o", "/", "a", "b">>
PathEchoEmpty ==
    <<"/", "e", "c", "h", "o", "/">>
PathEchoBare ==
    <<"/", "e", "c", "h", "o">>
PathUserAgent ==
    <<"/", "u", "s", "e", "r", "-", "a", "g", "e", "n", "t">>
PathUserAgentLong ==
    <<"/", "u", "s", "e", "r", "-", "a", "g", "e", "n", "t", "/", "x">>
PathFileF ==
    <<"/", "f", "i", "l", "e", "s", "/", "f">>
PathFileG ==
    <<"/", "f", "i", "l", "e", "s", "/", "g">>
PathFilesDir ==
    <<"/", "f", "i", "l", "e", "s", "/">>
PathOther ==
    <<"/", "x">>
HdrAcceptGzip ==
    <<"a", "c", "c", "e", "p", "t", "-", "e", "n", "c", "o", "d", "i", "n", "g", ":", " ", "g", "z", "i", "p">>
HdrAcceptList ==
    <<"A", "c", "c", "e", "p", "t", "-", "E", "n", "c", "o", "d", "i", "n", "g", ":", " ", "b", "r", ",", " ", "g", "z", "i", "p">>
HdrAcceptBr ==
    <<"a", "c", "c", "e", "p", "t", "-", "e", "n", "c", "o", "d", "i", "n", "g", ":", " ", "b", "r">>
HdrUserAgent ==
    <<"U", "s", "e", "r", "-", "A", "g", "e", "n", "t", ":", " ", "c", "u">>
HdrUserAgentAgain ==
    <<"u", "s", "e", "r", "-", "a", "g", "e", "n", "t", ":", " ", "r", "l">>
HdrJunk ==
    <<"j", "u", "n", "k">>
HdrNote ==
    <<"X", "-", "N", "o", "t", "e", ":", " ", "A", "b", ":", " ", "C", "d">>
HdrContentLength ==
    <<"C", "o", "n", "t", "e", "n", "t", "-", "L", "e", "n", "g", "t", "h", ":", " ">>
HdrContentLengthBad ==
    <<"c", "o", "n", "t", "e", "n", "t", "-", "l", "e", "n", "g", "t", "h", ":", " ", "-", "1">>
FilesDirectory ==
    <<"/", "d">>

MaxBody == 1
NumConns == 2

BodyAlphabet == {"a", "b"}
RECURSIVE SeqsUpTo(_, _)
SeqsUpTo(S, n) ==
    IF n = 0 THEN {<<>>}
    ELSE SeqsUpTo(S, n - 1)
         \cup {Append(s, x) : s \in {t \in SeqsUpTo(S, n - 1) : Len(t) = n - 1}, x \in S}
Bodies == SeqsUpTo(BodyAlphabet, MaxBody)

MethodTokens == {StrGET, Strget, StrPost, StrPOST, StrPATCH}
RequestPaths ==
    {RootPath, PathEcho, PathEchoEmpty, PathEchoBare, PathUserAgent,
     PathUserAgentLong, PathFileF, PathFileG, PathFilesDir, PathOther}
FilePaths == {PathFileF, PathFileG, PathFilesDir}

Line3(method, path) ==
    method \o <<" ">> \o path \o <<" ">> \o HttpVersion \o CRLF

WellFormedLines == {Line3(m, p) : m \in MethodTokens, p \in RequestPaths}

\* request lines that do not split into three tokens: no byte at all, a bare
\* line end, one token, two tokens, four tokens, an empty token
MalformedLines ==
    {<<>>,
     CRLF,
     StrGET \o CRLF,
     StrGET \o <<" ">> \o RootPath \o CRLF,
     StrPATCH \o <<" ">> \o RootPath \o CRLF,
     Line3(StrGET, PathEcho \o <<" ">> \o PathOther),
     Line3(StrPATCH, RootPath \o <<" ">> \o PathOther),
     Line3(StrGET, <<" ">> \o RootPath)}

RequestLines == WellFormedLines \cup MalformedLines

RECURSIVE HeaderBlock(_)
HeaderBlock(lines) ==
    IF lines = <<>> THEN CRLF
    ELSE Head(lines) \o CRLF \o HeaderBlock(Tail(lines))

HeaderSets ==
    {<<>>,
     <<HdrAcceptGzip>>,
     <<HdrAcceptList, HdrUserAgent>>,
     <<HdrAcceptBr, HdrNote>>,
     <<HdrUserAgent, HdrJunk, HdrUserAgentAgain>>}

Client(data, eof) == [data |-> data, eof |-> eof]

\* requests without a body, on every route; a malformed request line is
\* followed by an empty header block
PlainClients ==
    {Client(l \o HeaderBlock(h), TRUE) : l \in WellFormedLines, h \in HeaderSets}
    \cup {Client(l \o HeaderBlock(<<>>), TRUE) : l \in MalformedLines}

ContentLengthLine(n) == <<HdrContentLength \o to_string(n)>>

\* requests to /files/ that send a body, with its length declared or not
BodyClients ==
    UNION {
      {Client(Line3(m, p) \o HeaderBlock(h \o ContentLengthLine(Len(b))) \o b, TRUE),
       Client(Line3(m, p) \o HeaderBlock(h) \o b, TRUE)}
      : m \in {StrGET, StrPOST}, p \in FilePaths,
        h \in {<<>>, <<HdrAcceptGzip>>}, b \in Bodies}

\* a POST whose declared length exceeds what is sent (the client then
\* closing or not), is not a number, or is followed by a further byte
OddBodyClients ==
    UNION {
      LET line == Line3(StrPOST, PathFileF) IN
      {Client(line \o HeaderBlock(ContentLengthLine(Len(b) + 1)) \o b, TRUE),
       Client(line \o HeaderBlock(ContentLengthLine(Len(b) + 1)) \o b, FALSE),
       Client(line \o HeaderBlock(<<HdrContentLengthBad>>) \o b, TRUE),
       Client(line \o HeaderBlock(ContentLengthLine(Len(b))) \o b \o <<"b">>, TRUE)}
      : b \in Bodies}

\* requests cut short: inside the request line, inside the headers
PartialClients ==
    {Client(SubSeq(Line3(StrGET, RootPath), 1, 5), e) : e \in BOOLEAN}
    \cup {Client(Line3(StrGET, PathEcho) \o HdrUserAgent \o CRLF, e) : e \in BOOLEAN}

Clients == PlainClients \cup BodyClients \cup OddBodyClients \cup PartialClients

(***************************************************************************)
(* State                                                                   *)
(***************************************************************************)
VARIABLES
    config,     \* Config.files_dir, an Option<String>
    fs,         \* the files under the served directory, by path
    created,    \* history: per path, the body of the last POST answered 201
    conn,       \* the connections handled through Request::new / handle
    server,     \* the process of main.rs: its accept loop and its connection
    ser         \* a Response and the slices its as_bytes calls returned

Conns == 1..NumConns

FsPaths == {PathJoin(FilesDirectory, n) : n \in {<<"f">>, <<"g">>, <<>>}}

InitialFiles ==
    {[p \in FsPaths |->
        IF p = PathJoin(FilesDirectory, <<>>) THEN Directory
        ELSE IF p = PathJoin(FilesDirectory, <<"g">>) THEN g
        ELSE Absent] : g \in {Absent, File(<<"b">>)}}

IdleConn ==
    [pc       |-> "idle",
     sent     |-> <<>>,
     stream   |-> <<>>,
     eof      |-> FALSE,
     result   |-> "none",
     method   |-> "none",
     path     |-> <<>>,
     http_version |-> <<>>,
     headers  |-> EmptyMap,
     content  |-> None,
     response |-> None,
     io       |-> <<>>,
     out      |-> <<>>]

\* main.rs before its first connection
IdleServer ==
    [pc           |-> "accept",
     stream       |-> <<>>,
     eof          |-> FALSE,
     request_line |-> <<>>,
     handled      |-> FALSE,
     routed       |-> FALSE,
     out          |-> <<>>,
     result       |-> "none"]

NoResponse == [response |-> None, returned |-> <<>>]

InitHttp ==
    /\ config \in {[files_dir |-> None], [files_dir |-> Some(FilesDirectory)]}
    /\ fs \in InitialFiles
    /\ created = [p \in FsPaths |-> None]
    /\ conn = [c \in Conns |-> IdleConn]
    /\ server = IdleServer
    /\ ser = NoResponse

\* mutant: content starts as an empty buffer (Some(Vec::new())) instead of
\* None, so that a request without content-length has an empty body
RequestOf_emptyContent(k) ==
    [method |-> k.method, path |-> k.path, headers |-> k.headers,
     content |-> IF IsSome(k.content) THEN k.content ELSE Some(<<>>)]

\* the request a connection has parsed
RequestOf(k) ==
    [method |-> k.method, path |-> k.path, headers |-> k.headers,
     content |-> k.content]

Free(c) == conn[c].pc = "idle"

\* connections are served one at a time
Exclusive(c) == \A d \in Conns \ {c} : Free(d)

\* a client connects and sends its bytes; the connection takes the lowest
\* free slot
Accept(c) ==
    /\ Free(c)
    /\ \A d \in 1..(c - 1) : ~Free(d)
    /\ Exclusive(c)
    /\ \E cl \in Clients :
         conn' = [conn EXCEPT ![c] =
                    [IdleConn EXCEPT !.pc = "request_line", !.sent = cl.data,
                                     !.stream = cl.data, !.eof = cl.eof]]
    /\ UNCHANGED <<config, fs, created>>

\* Request::new, lines 71-90
ReadRequestLine(c) ==
    LET k == conn[c]
        line == read_line(k.stream)
        parsed == ParseRequestLine(line)
    IN  /\ k.pc = "request_line"
        /\ LineReady(k.stream, k.eof)
        /\ conn' = [conn EXCEPT ![c] =
                      [k EXCEPT !.stream = DropFirst(k.stream, Len(line)),
                                !.result = parsed.result,
                                !.method = parsed.method,
                                !.path = parsed.path,
                                !.http_version = parsed.http_version,
                                !.pc = IF parsed.result = "Ok" THEN "headers"
                                       ELSE "respond"]]
        /\ UNCHANGED <<config, fs, created>>

\* Request::new, lines 92-105
ReadHeaders(c) ==
    LET k == conn[c]
        loop == HeaderLoop(k.stream, k.eof, EmptyMap)
    IN  /\ k.pc = "headers"
        /\ ~loop.blocked
        /\ conn' = [conn EXCEPT ![c] =
                      [k EXCEPT !.stream = loop.rest,
                                !.headers = loop.headers,
                                !.pc = IF IsSome(Get(loop.headers, KeyContentLength))
                                       THEN "body" ELSE "handle"]]
        /\ UNCHANGED <<config, fs, created>>

\* mutant: the body is read with read_to_end instead of read_exact into a
\* buffer of content-length bytes
ReadBody_toEnd(c) ==
    LET k == conn[c]
        n == parse_usize(Unwrap(Get(k.headers, KeyContentLength)))
    IN  /\ k.pc = "body"
        /\ IF n = None
           THEN conn' = [conn EXCEPT ![c] =
                           [k EXCEPT !.result = "Error", !.pc = "respond"]]
           ELSE /\ k.eof
                /\ conn' = [conn EXCEPT ![c] =
                              [k EXCEPT !.content = Some(k.stream),
                                        !.stream = <<>>,
                                        !.pc = "handle"]]
        /\ UNCHANGED <<config, fs, created>>

\* Request::new, lines 105-110
ReadBody(c) ==
    LET k == conn[c]
        n == parse_usize(Unwrap(Get(k.headers, KeyContentLength)))
    IN  /\ k.pc = "body"
        /\ IF n = None
           THEN conn' = [conn EXCEPT ![c] =
                           [k EXCEPT !.result = "Error", !.pc = "respond"]]
           ELSE IF Len(k.stream) >= Unwrap(n)
           THEN conn' = [conn EXCEPT ![c] =
                           [k EXCEPT !.content = Some(SubSeq(k.stream, 1, Unwrap(n))),
                                     !.stream = DropFirst(k.stream, Unwrap(n)),
                                     !.pc = "handle"]]
           ELSE /\ k.eof
                /\ conn' = [conn EXCEPT ![c] =
                              [k EXCEPT !.stream = <<>>,
                                        !.result = "Error", !.pc = "respond"]]
        /\ UNCHANGED <<config, fs, created>>

\* Request::handle
Handle(c) ==
    LET k == conn[c]
        a == handle(RequestOf(k), config.files_dir, fs)
    IN  /\ k.pc = "handle"
        /\ conn' = [conn EXCEPT ![c] =
                      [k EXCEPT !.response = Some(a.response), !.io = a.io,
                                !.pc = "respond"]]
        /\ fs' = a.fs
        /\ created' =
             IF a.response.status = "Created" /\ a.io # <<>>
             THEN [created EXCEPT ![a.io[1][2]] = k.content]
             ELSE created
        /\ UNCHANGED config

\* the connection task: a parsed request's response is serialized and
\* written, BadRequestError and MethodNotAllowedError are answered 400 and
\* 405, any other error is logged and nothing is written; then the
\* connection is closed
Respond(c) ==
    LET k == conn[c]
        r == IF k.result = "Ok" THEN k.response
             ELSE IF k.result = "BadRequestError" THEN Some(Response_new("BadRequest"))
             ELSE IF k.result = "MethodNotAllowedError"
                  THEN Some(Response_new("MethodNotAllowed"))
             ELSE None
    IN  /\ k.pc = "respond"
        /\ conn' = [conn EXCEPT ![c] =
                      [k EXCEPT !.response = IF IsSome(r) THEN Some(as_bytes(Unwrap(r)))
                                             ELSE None,
                                !.out = IF IsSome(r) THEN <<as_bytes(Unwrap(r)).bytes>>
                                        ELSE <<>>,
                                !.pc = "closed"]]
        /\ UNCHANGED <<config, fs, created>>

\* the task ends and its connection state is dropped
Close(c) ==
    /\ conn[c].pc = "closed"
    /\ conn' = [conn EXCEPT ![c] = IdleConn]
    /\ UNCHANGED <<config, fs, created>>

vars == <<config, fs, created, conn, server, ser>>

NextHttp ==
    /\ \E c \in Conns :
        \/ Accept(c)
        \/ ReadRequestLine(c)
        \/ ReadHeaders(c)
        \/ ReadBody(c)
        \/ Handle(c)
        \/ Respond(c)
        \/ Close(c)
    /\ UNCHANGED <<server, ser>>

Spec == InitHttp /\ [][NextHttp]_vars

(***************************************************************************)
(* main.rs: the accept loop and handle_connection.  `out` are the writes   *)
(* the client of the current connection has received, `result` is what     *)
(* handle_connection returned to main ("Ok", or "Err", which main logs),   *)
(* `routed` says hande_path was called.  A write to the socket succeeds or *)
(* fails (the peer is gone).  A panic unwinds main: the process ends.      *)
(***************************************************************************)
\* hande_path (main.rs 66-77); this Response::text takes no encoding
hande_path(path) ==
    IF path = RootPath THEN Response_new("OK")
    ELSE IF IsSome(strip_prefix(path, EchoPrefix))
    THEN Response_text(Unwrap(strip_prefix(path, EchoPrefix)), None)
    ELSE Response_new("NotFound")

\* check_method (main.rs 56-64): whether it returns Err
check_method_is_err(method) == Method_from(method) = None

\* write_response / stream.write_all(response.as_bytes())
WriteResponse(out, response) == Append(out, as_bytes(response).bytes)

MainClients == PlainClients \cup PartialClients

\* main.rs 14-18: the next connection is accepted
MainAccept ==
    /\ server.pc = "accept"
    /\ \E cl \in MainClients :
         server' = [IdleServer EXCEPT !.pc = "read_line", !.stream = cl.data,
                                      !.eof = cl.eof]
    /\ UNCHANGED <<config, fs, created, conn, ser>>

\* main.rs 30-33
MainReadLine ==
    /\ server.pc = "read_line"
    /\ LineReady(server.stream, server.eof)
    /\ server' = [server EXCEPT
                    !.request_line = read_line(server.stream),
                    !.stream = DropFirst(server.stream, Len(read_line(server.stream))),
                    !.pc = "check_parts"]
    /\ UNCHANGED <<config, fs, created, conn, ser>>

\* main.rs 35-39: the 400 is written and, unless the write fails, control
\* goes on to line 41
MainCheckParts ==
    LET parts == split(server.request_line, " ") IN
    /\ server.pc = "check_parts"
    /\ IF Len(parts) # 3
       THEN \E ok \in BOOLEAN :
              IF ok
              THEN server' = [server EXCEPT
                                !.out = WriteResponse(server.out, Response_new("BadRequest")),
                                !.pc = "index_parts"]
              ELSE server' = [server EXCEPT !.result = "Err", !.handled = TRUE,
                                            !.pc = "accept"]
       ELSE server' = [server EXCEPT !.pc = "index_parts"]
    /\ UNCHANGED <<config, fs, created, conn, ser>>

\* main.rs 41-43: parts[0], parts[1], parts[2]; an index past the end panics
MainIndexParts ==
    LET parts == split(server.request_line, " ") IN
    /\ server.pc = "index_parts"
    /\ server' = [server EXCEPT !.pc = IF Len(parts) < 3 THEN "panicked"
                                       ELSE "check_method"]
    /\ UNCHANGED <<config, fs, created, conn, ser>>

\* main.rs 45-49
MainCheckMethod ==
    LET parts == split(server.request_line, " ") IN
    /\ server.pc = "check_method"
    /\ IF check_method_is_err(parts[1])
       THEN \E ok \in BOOLEAN :
              server' = [server EXCEPT
                           !.out = IF ok
                                   THEN WriteResponse(server.out,
                                                      Response_new("MethodNotAllowed"))
                                   ELSE server.out,
                           !.result = IF ok THEN "Ok" ELSE "Err",
                           !.handled = TRUE,
                           !.pc = "accept"]
       ELSE server' = [server EXCEPT !.pc = "hande_path"]
    /\ UNCHANGED <<config, fs, created, conn, ser>>

\* main.rs 51-53
MainHandlePath ==
    LET parts == split(server.request_line, " ") IN
    /\ server.pc = "hande_path"
    /\ \E ok \in BOOLEAN :
         server' = [server EXCEPT
                      !.routed = TRUE,
                      !.out = IF ok THEN WriteResponse(server.out, hande_path(parts[2]))
                              ELSE server.out,
                      !.result = IF ok THEN "Ok" ELSE "Err",
                      !.handled = TRUE,
                      !.pc = "accept"]
    /\ UNCHANGED <<config, fs, created, conn, ser>>

InitMain ==
    /\ config = [files_dir |-> None]
    /\ fs = [p \in FsPaths |-> Absent]
    /\ created = [p \in FsPaths |-> None]
    /\ conn = [c \in Conns |-> IdleConn]
    /\ server = IdleServer
    /\ ser = NoResponse

NextMain ==
    \/ MainAccept
    \/ MainReadLine
    \/ MainCheckParts
    \/ MainIndexParts
    \/ MainCheckMethod
    \/ MainHandlePath

SpecMain == InitMain /\ [][NextMain]_vars

(***************************************************************************)
(* A Response on its own: built by new, text or binary, then serialized by *)
(* successive calls of as_bytes                                            *)
(***************************************************************************)
MaxCalls == 2

Contents == SeqsUpTo(BodyAlphabet, MaxBody + 1) \cup {UserAgentMissing}
Encodings == {None, Some(GzipToken), Some(<<"b", "r">>)}

SerNew ==
    /\ \E status \in Statuses :
         ser' = [response |-> Some(Response_new(status)), returned |-> <<>>]
    /\ UNCHANGED <<config, fs, created, conn, server>>

SerText ==
    /\ \E content \in Contents, encoding \in Encodings :
         ser' = [response |-> Some(Response_text(content, encoding)),
                 returned |-> <<>>]
    /\ UNCHANGED <<config, fs, created, conn, server>>

SerBinary ==
    /\ \E content \in Contents, encoding \in Encodings :
         ser' = [response |-> Some(Response_binary(content, encoding)),
                 returned |-> <<>>]
    /\ UNCHANGED <<config, fs, created, conn, server>>

\* one more call of as_bytes on the same Response
SerAsBytes ==
    /\ IsSome(ser.response)
    /\ Len(ser.returned) < MaxCalls
    /\ ser' = [response |-> Some(as_bytes(Unwrap(ser.response))),
               returned |-> Append(ser.returned, as_bytes(Unwrap(ser.response)).bytes)]
    /\ UNCHANGED <<config, fs, created, conn, server>>

NextSerialize ==
    \/ SerNew
    \/ SerText
    \/ SerBinary
    \/ SerAsBytes

InitSerialize == InitMain

SpecSerialize == InitSerialize /\ [][NextSerialize]_vars

(***************************************************************************)
(* A client's reading of the bytes written to it                           *)
(***************************************************************************)
\* the status line and headers: the bytes before the first blank line
WireHead(w) == SubSeq(w, 1, Find(w, HeadersEnd) - 1)

\* the bytes after the first blank line
WireBody(w) == DropFirst(w, Find(w, HeadersEnd) + Len(HeadersEnd) - 1)

\* the status line without the protocol version
WireStatus(w) ==
    LET head == WireHead(w)
        first == IF Find(head, CRLF) > 0 THEN SubSeq(head, 1, Find(head, CRLF) - 1)
                 ELSE head
    IN  DropFirst(first, Len(HttpVersionPrefix))

\* the value of header `name`, None when the head has no such header
WireHeader(w, name) ==
    LET head == WireHead(w)
        at   == Find(head, CRLF \o name \o HeaderSeparator)
        from == DropFirst(head, at + Len(name) + 3)
    IN  IF at = 0 THEN None
        ELSE IF Find(from, CRLF) > 0 THEN Some(SubSeq(from, 1, Find(from, CRLF) - 1))
        ELSE Some(from)

NameContentEncoding ==
    <<"C", "o", "n", "t", "e", "n", "t", "-", "E", "n", "c", "o", "d", "i", "n", "g">>
NameContentType ==
    <<"C", "o", "n", "t", "e", "n", "t", "-", "T", "y", "p", "e">>
NameContentLength ==
    <<"C", "o", "n", "t", "e", "n", "t", "-", "L", "e", "n", "g", "t", "h">>

\* every response written so far on the connections of Request::new / handle
Written == UNION {{conn[c].out[i] : i \in DOMAIN conn[c].out} : c \in Conns}

\* the connections whose parsed request has been answered by handle
Answered == {c \in Conns : conn[c].result = "Ok" /\ conn[c].pc = "closed"}

IsGzipStream(body) ==
    /\ Len(body) >= Len(GzipHeader) + 8
    /\ SubSeq(body, 1, 3) = SubSeq(GzipHeader, 1, 3)

(***************************************************************************)
(* C1: when the request's accept-encoding value contains "gzip" and the    *)
(* route produced a body, the bytes written carry Content-Encoding: gzip   *)
(* and a body that is the gzip compression of the content; and no response *)
(* carries Content-Encoding: gzip with a body that is not gzip-encoded.    *)
(***************************************************************************)
C1_GzipBodyIsCompressed ==
    /\ \A c \in Answered :
         LET k == conn[c]
             r == Unwrap(k.response)
             accept == Get(k.headers, KeyAcceptEncoding)
         IN  (IsSome(accept) /\ Contains(Unwrap(accept), GzipToken) /\ IsSome(r.content))
             => /\ WireHeader(k.out[1], NameContentEncoding) = Some(GzipToken)
                /\ WireBody(k.out[1]) = gzip_compress(Unwrap(r.content))
    /\ \A w \in Written :
         WireHeader(w, NameContentEncoding) = Some(GzipToken)
         => IsGzipStream(WireBody(w))

FilePathOf(k) ==
    PathJoin(Unwrap(config.files_dir), Unwrap(strip_prefix(k.path, FilesPrefix)))

IsFilesRequest(k) == k.result = "Ok" /\ IsSome(strip_prefix(k.path, FilesPrefix))

\* the step in which connection c runs Request::handle
HandleStep(c) == conn[c].pc = "handle" /\ conn'[c].pc = "respond"

(***************************************************************************)
(* C8: with a directory configured, once a POST /files/<name> carrying     *)
(* body b has been answered 201 Created, a GET /files/<name> handled later *)
(* (with no POST to that name in between) is answered 200 OK with body     *)
(* exactly b and content-type application/octet-stream; a later POST with  *)
(* body b' replaces b.  `created` holds, per file, the body of the last    *)
(* POST that was answered 201.                                             *)
(***************************************************************************)
C8_GetReturnsLastPost ==
    [][\A c \in Conns :
         (/\ HandleStep(c)
          /\ IsFilesRequest(conn[c])
          /\ conn[c].method = "GET"
          /\ IsSome(config.files_dir)
          /\ IsSome(created[FilePathOf(conn[c])]))
         => LET w == as_bytes(Unwrap(conn'[c].response)).bytes IN
            /\ WireStatus(w) = STATUS_200_OK
            /\ WireBody(w) = Unwrap(created[FilePathOf(conn[c])])
            /\ WireHeader(w, NameContentType) = Some(OctetStream)]_vars

\* a GET answered with the body of an earlier POST
C8_Witness ==
    \E c \in Answered :
        /\ IsFilesRequest(conn[c])
        /\ conn[c].method = "GET"
        /\ IsSome(config.files_dir)
        /\ created[FilePathOf(conn[c])] = Some(<<"a">>)
        /\ WireStatus(conn[c].out[1]) = STATUS_200_OK
        /\ WireBody(conn[c].out[1]) = <<"a">>

(***************************************************************************)
(* C9: with no directory configured every GET /files/<name> is answered    *)
(* 404 and every POST /files/<name> 500, and no file is read or written;   *)
(* with a directory configured a GET whose read fails is answered 404 and  *)
(* a POST whose write fails 500.                                           *)
(***************************************************************************)
C9_FilesErrors ==
    /\ [](\A c \in Answered :
            LET k == conn[c] IN
            IsFilesRequest(k)
            => /\ config.files_dir = None
                  => /\ k.io = <<>>
                     /\ k.method = "GET"
                        => WireStatus(k.out[1]) = STATUS_404_NOT_FOUND
                     /\ k.method = "POST"
                        => WireStatus(k.out[1]) = STATUS_500_INTERNAL_SERVER_ERROR
               /\ (k.io # <<>> /\ ~k.io[1][3])
                  => /\ k.method = "GET"
                        => WireStatus(k.out[1]) = STATUS_404_NOT_FOUND
                     /\ k.method = "POST"
                        => WireStatus(k.out[1]) = STATUS_500_INTERNAL_SERVER_ERROR)
    /\ [][config.files_dir = None => fs' = fs]_vars

\* both cases: a POST refused for want of a directory, and a failed write
C9_Witness ==
    \E c \in Answered :
        /\ IsFilesRequest(conn[c])
        /\ conn[c].method = "POST"
        /\ IsSome(conn[c].content)
        /\ WireStatus(conn[c].out[1]) = STATUS_500_INTERNAL_SERVER_ERROR
        /\ config.files_dir = None

C9_WitnessWriteFails ==
    \E c \in Answered :
        /\ conn[c].io # <<>>
        /\ conn[c].io[1] = <<"write", PathJoin(FilesDirectory, <<>>), FALSE>>
        /\ WireStatus(conn[c].out[1]) = STATUS_500_INTERNAL_SERVER_ERROR

(***************************************************************************)
(* The routing table of the specification, read off the bytes written:     *)
(* whether w is the table's answer to (method, path, headers)              *)
(***************************************************************************)
FollowsTable(method, path, headers, w) ==
    IF path = RootPath
    THEN IF method = "GET"
         THEN WireStatus(w) = STATUS_200_OK /\ WireBody(w) = <<>>
         ELSE WireStatus(w) = STATUS_405_METHOD_NOT_ALLOWED
    ELSE IF MatchesAt(path, EchoPrefix, 1)
    THEN IF method = "GET"
         THEN /\ WireStatus(w) = STATUS_200_OK
              /\ WireBody(w) = DropFirst(path, Len(EchoPrefix))
              /\ WireHeader(w, NameContentType) = Some(TextPlain)
         ELSE WireStatus(w) = STATUS_405_METHOD_NOT_ALLOWED
    ELSE IF MatchesAt(path, UserAgentPrefix, 1)
    THEN IF method = "GET"
         THEN /\ WireStatus(w) = STATUS_200_OK
              /\ WireBody(w) = IF KeyUserAgent \in DOMAIN headers
                               THEN headers[KeyUserAgent]
                               ELSE UserAgentMissing
         ELSE WireStatus(w) = STATUS_405_METHOD_NOT_ALLOWED
    ELSE IF MatchesAt(path, FilesPrefix, 1)
    THEN WireStatus(w) \in {STATUS_200_OK, STATUS_201_CREATED,
                            STATUS_404_NOT_FOUND, STATUS_500_INTERNAL_SERVER_ERROR}
    ELSE WireStatus(w) = STATUS_404_NOT_FOUND

\* the tokens of the request line main.rs read
MainParts == split(server.request_line, " ")

\* the headers the client of main.rs sent after its request line
MainHeaders == HeaderLoop(server.stream, TRUE, EmptyMap).headers

(***************************************************************************)
(* C3: for every parsed request (method GET or POST, any path) the status  *)
(* and body of the response are those of the routing table in priority     *)
(* order: "/" -> 200 without body; "/echo/<rest>" -> 200, body <rest>,     *)
(* text/plain; "/user-agent..." -> 200, body the user-agent value or the   *)
(* fallback text; "/files/..." -> the file routes; anything else -> 404;   *)
(* and a method other than GET on the first three is answered 405, never   *)
(* 200.  Stated of the response main.rs writes for a three-token line      *)
(* whose method resolves.                                                  *)
(***************************************************************************)
C3_RoutingTable ==
    (/\ server.handled
     /\ Len(MainParts) = 3
     /\ server.routed
     /\ server.out # <<>>)
    => FollowsTable(Unwrap(Method_from(MainParts[1])), MainParts[2], MainHeaders,
                    server.out[Len(server.out)])

\* the same table, of the responses of Request::handle (under Spec)
HandleFollowsTable ==
    \A c \in Answered :
        FollowsTable(conn[c].method, conn[c].path, conn[c].headers, conn[c].out[1])

(***************************************************************************)
(* C4: on every accepted connection at most one response is written: no    *)
(* second status line follows the first, whatever the request line.        *)
(***************************************************************************)
C4_AtMostOneResponse == Len(server.out) <= 1

(***************************************************************************)
(* C5: the server process never terminates because of one connection:      *)
(* whatever first line the client sends, handling the connection ends in a *)
(* written response or a logged error and the accept loop goes on.         *)
(***************************************************************************)
C5_ServerKeepsRunning ==
    /\ server.pc # "panicked"
    /\ server.handled => (server.out # <<>> \/ server.result = "Err")

(***************************************************************************)
(* C6: a request line that does not split on ' ' into exactly 3 tokens     *)
(* fails Request::new with BadRequestError and is answered 400, whatever   *)
(* its first token, and no route is dispatched for it.                     *)
(***************************************************************************)
C6_MalformedLineIs400 ==
    (/\ server.pc \notin {"read_line", "check_parts"}
     /\ Len(MainParts) # 3)
    => /\ ParseRequestLine(server.request_line).result = "BadRequestError"
       /\ \A i \in DOMAIN server.out :
            WireStatus(server.out[i]) = STATUS_400_BAD_REQUEST
       /\ ~server.routed

IsGetOrPost(token) ==
    to_lowercase(token) \in {<<"g", "e", "t">>, <<"p", "o", "s", "t">>}

(***************************************************************************)
(* C7: for a 3-token request line the method token is resolved without     *)
(* regard to case: any casing of GET or POST is accepted (Request::new     *)
(* succeeds on the line, main.rs dispatches the path and writes neither    *)
(* 400 nor 405); every other token fails with MethodNotAllowedError and is *)
(* answered 405, never 400, and no route is dispatched.                    *)
(***************************************************************************)
C7_MethodCaseInsensitive ==
    (server.handled /\ Len(MainParts) = 3)
    => IF IsGetOrPost(MainParts[1])
       THEN /\ ParseRequestLine(server.request_line).result = "Ok"
            /\ server.routed
            /\ \A i \in DOMAIN server.out :
                 WireStatus(server.out[i]) \notin
                    {STATUS_400_BAD_REQUEST, STATUS_405_METHOD_NOT_ALLOWED}
       ELSE /\ ParseRequestLine(server.request_line).result = "MethodNotAllowedError"
            /\ ~server.routed
            /\ server.result = "Ok"
               => server.out = <<HttpVersionPrefix \o STATUS_405_METHOD_NOT_ALLOWED
                                 \o HeadersEnd>>
            /\ server.result = "Err" => server.out = <<>>

\* a lower-case "get" was accepted and its path dispatched
C7_Witness ==
    /\ server.handled
    /\ Len(MainParts) = 3
    /\ MainParts[1] = Strget
    /\ server.routed
    /\ server.out # <<>>
    /\ WireStatus(server.out[1]) = STATUS_200_OK

\* an unknown method was answered 405
C7_WitnessUnknown ==
    /\ server.handled
    /\ Len(MainParts) = 3
    /\ MainParts[1] = StrPATCH
    /\ server.out # <<>>
    /\ WireStatus(server.out[1]) = STATUS_405_METHOD_NOT_ALLOWED

(***************************************************************************)
(* C10: a second call of as_bytes on a Response returns exactly the bytes  *)
(* the first call returned.                                                *)
(***************************************************************************)
C10_SecondCallSameBytes ==
    Len(ser.returned) >= 2 => ser.returned[2] = ser.returned[1]

RECURSIVE Repeat(_, _)
Repeat(s, n) == IF n = 0 THEN <<>> ELSE s \o Repeat(s, n - 1)

(***************************************************************************)
(* C10 as amended: the first call of as_bytes on a freshly built Response  *)
(* returns its serialization; the n-th call on the same Response returns n *)
(* copies of it one after the other, because the buffer is extended and    *)
(* never cleared.                                                          *)
(***************************************************************************)
C10_CallsAccumulate ==
    \A n \in DOMAIN ser.returned :
        /\ ser.returned[n] = Repeat(ser.returned[1], n)
        /\ Len(ser.returned[n]) = n * Len(ser.returned[1])
        /\ WireStatus(ser.returned[1]) = StatusLine(Unwrap(ser.response).status)

\* a Response with a body serialized twice
C10_Witness ==
    /\ Len(ser.returned) = 2
    /\ IsSome(Unwrap(ser.response).content)
    /\ Unwrap(ser.response).encoding = "Gzip"
    /\ ser.returned[2] # ser.returned[1]

\* the status lines of the fixed table, as a client reads them
TableLine(status) ==
    CASE status = "OK" -> <<"2", "0", "0", " ", "O", "K">>
      [] status = "Created" -> <<"2", "0", "1", " ", "C", "r", "e", "a", "t", "e", "d">>
      [] status = "BadRequest" ->
            <<"4", "0", "0", " ", "B", "a", "d", " ", "R", "e", "q", "u", "e", "s", "t">>
      [] status = "NotFound" ->
            <<"4", "0", "4", " ", "N", "o", "t", " ", "F", "o", "u", "n", "d">>
      [] status = "MethodNotAllowed" ->
            <<"4", "0", "5", " ", "M", "e", "t", "h", "o", "d", " ", "N", "o", "t", " ",
              "A", "l", "l", "o", "w", "e", "d">>
      [] status = "InternalServerError" ->
            <<"5", "0", "0", " ", "I", "n", "t", "e", "r", "n", "a", "l", " ",
              "S", "e", "r", "v", "e", "r", " ", "E", "r", "r", "o", "r">>

\* where header `name` starts in the bytes written, 0 when it is not there
HeaderAt(w, name) == Find(w, CRLF \o name \o HeaderSeparator)

\* the connections that were written a response
Responded == {c \in Conns : conn[c].pc = "closed" /\ conn[c].out # <<>>}

(***************************************************************************)
(* C11: a Response without a body is written as exactly the protocol       *)
(* version, its status line from the fixed table and an empty line, with   *)
(* no Content-Type, Content-Length or Content-Encoding header, whatever    *)
(* the request's accept-encoding; a Response with a body is written as the *)
(* status line, then Content-Encoding (only when the encoding is gzip),    *)
(* Content-Type, Content-Length in this order, the empty line and the      *)
(* body.                                                                   *)
(***************************************************************************)
C11_SerializedForm ==
    \A c \in Responded :
        LET r == Unwrap(conn[c].response)
            w == conn[c].out[1]
            start == HttpVersionPrefix \o TableLine(r.status)
        IN  IF r.content = None
            THEN /\ w = start \o <<"\r", "\n", "\r", "\n">>
                 /\ HeaderAt(w, NameContentType) = 0
                 /\ HeaderAt(w, NameContentLength) = 0
                 /\ HeaderAt(w, NameContentEncoding) = 0
            ELSE /\ SubSeq(w, 1, Len(start) + 2) = start \o <<"\r", "\n">>
                 /\ IF r.encoding = "Gzip"
                    THEN /\ HeaderAt(w, NameContentEncoding) = Len(start) + 1
                         /\ HeaderAt(w, NameContentEncoding) < HeaderAt(w, NameContentType)
                    ELSE /\ HeaderAt(w, NameContentEncoding) = 0
                         /\ HeaderAt(w, NameContentType) = Len(start) + 1
                 /\ HeaderAt(w, NameContentType) < HeaderAt(w, NameContentLength)
                 /\ HeaderAt(w, NameContentLength) < Find(w, HeadersEnd)
                 /\ WireBody(w) = Unwrap(r.content)

\* GET / asking for gzip was answered by a bare status line
C11_Witness ==
    \E c \in Responded :
        /\ conn[c].result = "Ok"
        /\ conn[c].path = RootPath
        /\ IsSome(Get(conn[c].headers, KeyAcceptEncoding))
        /\ Contains(Unwrap(Get(conn[c].headers, KeyAcceptEncoding)), GzipToken)
        /\ conn[c].out[1] = HttpVersionPrefix \o TableLine("OK") \o HeadersEnd

\* a body was written behind the three headers
C11_WitnessBody ==
    \E c \in Responded :
        /\ IsSome(Unwrap(conn[c].response).content)
        /\ Unwrap(conn[c].response).encoding = "Gzip"
        /\ HeaderAt(conn[c].out[1], NameContentEncoding) > 0
        /\ WireBody(conn[c].out[1]) # <<>>

\* the connection main.rs is handling waits for bytes its client has not sent
MainStalled ==
    /\ server.pc = "read_line"
    /\ ~LineReady(server.stream, server.eof)

(***************************************************************************)
(* C12: a client that has connected and does not send its request line     *)
(* holds only its own connection: while it is waited for, the server can   *)
(* still accept another connection, whose complete request is then parsed, *)
(* dispatched and answered.                                                *)
(***************************************************************************)
C12_StalledDoesNotBlock == MainStalled => ENABLED MainAccept

NamedFile(k) ==
    Unwrap(config.files_dir) \o <<"/">> \o DropFirst(k.path, Len(FilesPrefix))

Parsed ==
    {c \in Conns : conn[c].result = "Ok" /\ conn[c].pc \in {"handle", "respond", "closed"}}

\* how many of the bytes a client sent make up the request line and the
\* header lines, the blank line included (all of them when there is no
\* blank line)
HeadLength(sent) ==
    IF Find(sent, <<"\r", "\n", "\r", "\n">>) > 0
    THEN Find(sent, <<"\r", "\n", "\r", "\n">>) + 3
    ELSE Len(sent)

(***************************************************************************)
(* C14: after Request::new has succeeded the request has a body exactly    *)
(* when a content-length header was parsed; the body is then the next      *)
(* content-length bytes the client sent after the blank line (its length   *)
(* is the parsed value, 0 included) and the bytes after it are left        *)
(* unread; without the header nothing after the blank line is consumed.    *)
(***************************************************************************)
C14_BodyIffContentLength ==
    \A c \in Parsed :
        LET k == conn[c]
            e == HeadLength(k.sent)
        IN  IF KeyContentLength \in DOMAIN k.headers
            THEN \E n \in 0..Len(k.sent) :
                    /\ to_string(n) = k.headers[KeyContentLength]
                    /\ IsSome(k.content)
                    /\ Len(Unwrap(k.content)) = n
                    /\ Unwrap(k.content) = SubSeq(k.sent, e + 1, e + n)
                    /\ k.stream = DropFirst(k.sent, e + n)
            ELSE /\ k.content = None
                 /\ k.stream = DropFirst(k.sent, e)

\* a declared body of one byte was read and the byte sent after it was not
C14_Witness ==
    \E c \in Parsed :
        /\ KeyContentLength \in DOMAIN conn[c].headers
        /\ conn[c].headers[KeyContentLength] = <<"1">>
        /\ conn[c].content = Some(<<"a">>)
        /\ conn[c].stream = <<"b">>

\* a declared length of 0 gives an empty body, not an absent one
C14_WitnessEmptyBody ==
    \E c \in Parsed :
        /\ KeyContentLength \in DOMAIN conn[c].headers
        /\ conn[c].content = Some(<<>>)

\* without the header the bytes after the blank line stay unread
C14_WitnessNoHeader ==
    \E c \in Parsed :
        /\ KeyContentLength \notin DOMAIN conn[c].headers
        /\ conn[c].content = None
        /\ conn[c].stream # <<>>
        /\ Find(conn[c].sent, HeadersEnd) > 0

\* the connections on which the header loop of Request::new has ended
HeadersRead ==
    {c \in Conns : /\ conn[c].result \in {"Ok", "Error"}
                   /\ conn[c].pc \in {"body", "handle", "respond", "closed"}}

\* the lines a client sent after its request line, up to the blank line
SentHeaderLines(sent) ==
    split(SubSeq(sent, Find(sent, <<"\n">>) + 1, HeadLength(sent)), "\n")

SeparatorAt(line) == Find(line, <<":", " ">>)

\* the key and the value a client means by a header line
SentKey(line) == to_lowercase(SubSeq(line, 1, SeparatorAt(line) - 1))
SentValue(line) ==
    LET v == DropFirst(line, SeparatorAt(line) + 1) IN
    IF Len(v) > 0 /\ v[Len(v)] = "\r" THEN SubSeq(v, 1, Len(v) - 1) ELSE v

(***************************************************************************)
(* C15: the headers of a request are read from the lines after the request *)
(* line up to and including the first empty line, and no byte beyond it is *)
(* read; a line containing ": " gives the key before its first ": ", lower *)
(* cased, and the value after it, unchanged; a line without ": " gives     *)
(* nothing; of several lines with the same key the last gives the value.   *)
(***************************************************************************)
C15_HeaderParsing ==
    \A c \in HeadersRead :
        LET k == conn[c]
            lines == SentHeaderLines(k.sent)
            withSep == {i \in DOMAIN lines : SeparatorAt(lines[i]) > 0}
        IN  /\ DOMAIN k.headers = {SentKey(lines[i]) : i \in withSep}
            /\ \A i \in withSep :
                 (\A j \in withSep : j > i => SentKey(lines[j]) # SentKey(lines[i]))
                 => k.headers[SentKey(lines[i])] = SentValue(lines[i])
            /\ k.pc = "body" => k.stream = DropFirst(k.sent, HeadLength(k.sent))

\* User-Agent sent twice in different case, a line without separator between
\* them, the body bytes not yet touched: the second value is the one kept
C15_Witness ==
    \E c \in HeadersRead :
        /\ Contains(conn[c].sent, HdrUserAgent \o CRLF \o HdrJunk \o CRLF \o HdrUserAgentAgain)
        /\ DOMAIN conn[c].headers = {KeyUserAgent}
        /\ conn[c].headers[KeyUserAgent] = <<"r", "l">>

\* a value that itself contains ": " and capitals is kept whole
C15_WitnessVerbatim ==
    \E c \in HeadersRead :
        /\ <<"x", "-", "n", "o", "t", "e">> \in DOMAIN conn[c].headers
        /\ conn[c].headers[<<"x", "-", "n", "o", "t", "e">>] = <<"A", "b", ":", " ", "C", "d">>

\* the body is still unread when the header loop has ended
C15_WitnessStops ==
    \E c \in HeadersRead :
        /\ conn[c].pc = "body"
        /\ conn[c].stream = <<"a", "b">>

(***************************************************************************)
(* C16: on one connection the request line, then the headers, then the     *)
(* declared body are read before the request is dispatched and the         *)
(* response written: when a response to a well-formed request has been     *)
(* written, every byte the client sent up to and including the blank line  *)
(* has been read.  Stated of main.rs, where what has been read is the      *)
(* request line and `stream` is what is still unread.                      *)
(***************************************************************************)
C16_ResponseAfterRequestRead ==
    (/\ server.out # <<>>
     /\ Len(MainParts) = 3
     /\ IsGetOrPost(MainParts[1]))
    => Len(server.request_line) >= HeadLength(server.request_line \o server.stream)

\* the connections on which Request::new has returned, a Request or an error
Returned == {c \in Conns : conn[c].pc \in {"handle", "respond", "closed"}}

\* the client closed before it had sent a whole request line
EndsBeforeRequestLine(k) == k.eof /\ Find(k.sent, <<"\n">>) = 0

\* the client sent a well-formed request line and closed before the blank line
EndsBeforeBlankLine(k) ==
    LET first == SubSeq(k.sent, 1, Find(k.sent, <<"\n">>)) IN
    /\ k.eof
    /\ Find(k.sent, <<"\n">>) > 0
    /\ Len(split(first, " ")) = 3
    /\ IsGetOrPost(split(first, " ")[1])
    /\ Find(k.sent, <<"\r", "\n", "\r", "\n">>) = 0

\* the content-length values the client sent before the blank line
SentContentLengths(k) ==
    LET lines == SentHeaderLines(k.sent) IN
    {SentValue(lines[i]) : i \in {j \in DOMAIN lines :
                                    /\ SeparatorAt(lines[j]) > 0
                                    /\ SentKey(lines[j]) = KeyContentLength}}

\* the client sent a well-formed request line and a content-length that is
\* not a number
BadContentLength(k) ==
    /\ k.result \notin {"BadRequestError", "MethodNotAllowedError"}
    /\ \E v \in SentContentLengths(k) : \A n \in 0..Len(k.sent) + 1 : to_string(n) # v

\* the client declared more body bytes than it sent before closing
EndsBeforeBody(k) ==
    /\ k.eof
    /\ k.result \notin {"BadRequestError", "MethodNotAllowedError"}
    /\ \E v \in SentContentLengths(k) :
         \E n \in 0..Len(k.sent) + 1 :
            /\ to_string(n) = v
            /\ n > Len(k.sent) - HeadLength(k.sent)

(***************************************************************************)
(* C17: when the content-length value is not a non-negative integer, or    *)
(* the client closes before the request line, the blank line or the        *)
(* declared body has been sent whole, Request::new fails with an error     *)
(* that is neither BadRequestError nor MethodNotAllowedError, and nothing  *)
(* is written to the connection.                                           *)
(***************************************************************************)
C17_FatalErrorNoResponse ==
    \A c \in Returned :
        (\/ EndsBeforeRequestLine(conn[c])
         \/ EndsBeforeBlankLine(conn[c])
         \/ BadContentLength(conn[c])
         \/ EndsBeforeBody(conn[c]))
        => /\ conn[c].result = "Error"
           /\ conn[c].out = <<>>

\* the two cases in which Request::new does fail that way
FatalBodyErrors ==
    \A c \in Returned :
        (BadContentLength(conn[c]) \/ EndsBeforeBody(conn[c]))
        => /\ conn[c].result = "Error"
           /\ conn[c].out = <<>>

(***************************************************************************)
(* C18: with a directory configured, a POST /files/<name> without a body   *)
(* (no content-length header) is answered 201 Created and leaves every     *)
(* file as it was: <name> is neither created nor truncated, so that a GET  *)
(* of it afterwards is answered as it would have been before.              *)
(***************************************************************************)
C18_PostWithoutBody ==
    [][\A c \in Conns :
         (/\ HandleStep(c)
          /\ conn[c].method = "POST"
          /\ MatchesAt(conn[c].path, FilesPrefix, 1)
          /\ IsSome(config.files_dir)
          /\ KeyContentLength \notin DOMAIN conn[c].headers)
         => /\ WireStatus(as_bytes(Unwrap(conn'[c].response)).bytes) = STATUS_201_CREATED
            /\ fs' = fs
      ]_vars

\* such a POST was answered 201 and the file it names still does not exist
C18_Witness ==
    \E c \in Answered :
        /\ conn[c].method = "POST"
        /\ conn[c].path = PathFileF
        /\ IsSome(config.files_dir)
        /\ KeyContentLength \notin DOMAIN conn[c].headers
        /\ conn[c].content = None
        /\ WireStatus(conn[c].out[1]) = STATUS_201_CREATED
        /\ fs[NamedFile(conn[c])].kind = "absent"

\* such a POST was answered 201 and the file it names kept its content
C18_WitnessKept ==
    \E c \in Answered :
        /\ conn[c].method = "POST"
        /\ conn[c].path = PathFileG
        /\ IsSome(config.files_dir)
        /\ conn[c].content = None
        /\ WireStatus(conn[c].out[1]) = STATUS_201_CREATED
        /\ fs[NamedFile(conn[c])] = File(<<"b">>)

(***************************************************************************)
(* C19: a response of Request::handle has a body, and with it the headers  *)
(* Content-Type, Content-Length and Content-Encoding, only when its status *)
(* is 200 OK; with status 201, 404, 405 or 500 it is the bare status line; *)
(* and the gzip encoding is only set on a response that Response::text or  *)
(* Response::binary built (one with content and their content type).       *)
(***************************************************************************)
C19_BodyOnlyWith200 ==
    \A c \in Answered :
        LET r == Unwrap(conn[c].response)
            w == conn[c].out[1]
        IN  /\ r.status \in {"OK", "Created", "NotFound", "MethodNotAllowed",
                             "InternalServerError"}
            /\ IsSome(r.content) => r.status = "OK"
            /\ r.status # "OK"
               => /\ w = HttpVersionPrefix \o TableLine(r.status) \o <<"\r", "\n", "\r", "\n">>
                  /\ HeaderAt(w, NameContentType) = 0
                  /\ HeaderAt(w, NameContentLength) = 0
                  /\ HeaderAt(w, NameContentEncoding) = 0
                  /\ r.encoding = "None"
            /\ (r.encoding = "Gzip" \/ HeaderAt(w, NameContentEncoding) > 0)
               => /\ IsSome(r.content)
                  /\ r.content_type \in {TextPlain, OctetStream}
                  /\ r.status = "OK"

\* a request asking for gzip was answered 404 by a bare status line
C19_Witness ==
    \E c \in Answered :
        /\ IsSome(Get(conn[c].headers, KeyAcceptEncoding))
        /\ Contains(Unwrap(Get(conn[c].headers, KeyAcceptEncoding)), GzipToken)
        /\ Unwrap(conn[c].response).status = "NotFound"
        /\ conn[c].out[1] = HttpVersionPrefix \o STATUS_404_NOT_FOUND \o HeadersEnd

====
